---- MODULE Spec2Model ----
(***************************************************************************)
(* devops-feed-hub: the RSS feed collector (collect_feeds.py), the shared   *)
(* slug generator (utils.py) and the renderers of the collection report    *)
(* (generate_rss.py, generate_summary.py), as state machines.              *)
(*                                                                         *)
(*   Spec       one run of collect_feeds.main: load the configuration,     *)
(*              fetch each feed in turn, write the JSON artifact.          *)
(*   FairSpec   Spec with the sequential progress of the one thread.       *)
(*   SpecParse  parse_rss_feed applied to one URL, cutoff and response.    *)
(*   SpecSlug   generate_feed_slug applied to one feed name.               *)
(*   SpecRss    generate_rss.py run once and again on one input file, and  *)
(*              sort_articles_by_date applied to the articles of a feed.   *)
(*   SpecMarkdown  the two Markdown summary scripts run on one input file. *)
(*   SpecHtml   generate_html_content applied to one report.               *)
(*   SpecPages  one run of generate_summary.py that writes the pages, and  *)
(*              generate_html_page applied to one feed of a report.        *)
(*   SpecRender each renderer called on a report held in memory.           *)
(*                                                                         *)
(* Conventions.  A Python Optional is a sequence of length at most one:    *)
(* None is <<>> and a present value x is <<x>>.  A Python string built by  *)
(* formatting is the sequence of its pieces, so "" is <<>> and an f-string *)
(* is the concatenation of its literal parts and its arguments.  Time is   *)
(* an integer number of hours.                                             *)
(***************************************************************************)
EXTENDS Integers, Sequences, FiniteSets, TLC

VARIABLES
    pc,             \* position of the running script or function
    args,           \* collect_feeds: the command line (hours, config file)
    now,            \* collect_feeds: the clock read at start-up
    max_hours,      \* collect_feeds.main: max_hours
    since_time,     \* collect_feeds.main: since_time, the cutoff
    config,         \* collect_feeds.main: the loaded configuration
    idx,            \* collect_feeds.main: position of the feed loop
    results,        \* collect_feeds.main: the results record being built
    total_articles, \* collect_feeds.main: total_articles
    calls,          \* history: every call of parse_rss_feed, with its result;
                    \* elsewhere the earlier call, or the feed it was about
    artifact,       \* the JSON output file (None until written)
    exit_code,      \* the exit status of the process (None while running)
    input,          \* SpecParse / SpecSlug: the argument of the function
    output          \* SpecParse / SpecSlug: the value it returned

vars == <<pc, args, now, max_hours, since_time, config, idx, results,
          total_articles, calls, artifact, exit_code, input, output>>

mainVars == <<args, now, max_hours, since_time, config, idx, results,
              total_articles, calls, artifact, exit_code>>

----------------------------------------------------------------------------
(* Bounds of the model *)

MaxFeeds == 2       \* configured feeds in one run
MaxEntries == 2     \* entries of one parsed feed
MaxLen == 5         \* characters of a feed name

(* Program constants *)

MinHours == 720     \* collect_feeds.py:132

----------------------------------------------------------------------------
(* Python values *)

None == <<>>
Some(x) == <<x>>
IsNone(o) == o = <<>>
Value(o) == o[1]

\* dict.get(key, default) on an optional field
Get(o, default) == IF IsNone(o) THEN default ELSE Value(o)

\* max(a, b)
Max(a, b) == IF a >= b THEN a ELSE b

\* All sequences over S of length at most n
SeqsUpTo(S, n) == UNION {[1..k -> S] : k \in 0..n}

----------------------------------------------------------------------------
(* Exceptions: the classes that the fetch and the parse raise, and their   *)
(* base classes in Python's hierarchy.                                     *)

\* The classes of which each exception class is a subclass (its __mro__)
Mro(cls) ==
    CASE cls = "HTTPError" -> {"HTTPError", "URLError", "OSError", "Exception"}
      [] cls = "URLError" -> {"URLError", "OSError", "Exception"}
      [] cls = "TimeoutError" -> {"TimeoutError", "OSError", "Exception"}
      [] cls = "OSError" -> {"OSError", "Exception"}
      [] cls = "UnicodeEncodeError" ->
            {"UnicodeEncodeError", "ValueError", "Exception"}
      [] cls = "ValueError" -> {"ValueError", "Exception"}
      [] OTHER -> {"Exception"}

\* isinstance(e, handler) for an exception of class cls
IsInstance(cls, handler) == handler \in Mro(cls)

----------------------------------------------------------------------------
(* parse_rss_feed *)

\* urllib's Request(url) raises ValueError for a URL without a scheme
UrlHasScheme(url) == url \in {"https://a", "https://b"}

\* datetime.isoformat() of a UTC-aware datetime
IsoFormat(p) == [kind |-> "iso", ts |-> p, offset |-> "+00:00"]

Unknown == [kind |-> "Unknown"]

\* An attribute of a parsed entry: missing, or present with an optional value
Absent == << >>
Attr(v) == <<v>>

\* hasattr(entry, f) and entry.f: the attribute exists and is not None
HasTime(a) == a # Absent /\ ~IsNone(a[1])

\* A choice of date that prefers updated_parsed
PubDateUpdatedFirst(entry) ==
    IF HasTime(entry.updated_parsed) THEN entry.updated_parsed[1]
    ELSE IF HasTime(entry.published_parsed) THEN entry.published_parsed[1]
    ELSE None

\* The publication date of an entry: published_parsed, else updated_parsed
PubDate(entry) ==
    IF HasTime(entry.published_parsed) THEN entry.published_parsed[1]
    ELSE IF HasTime(entry.updated_parsed) THEN entry.updated_parsed[1]
    ELSE None

\* A comparison that also keeps an entry dated exactly at the cutoff
IsAfterOrEqual(p, since) == p >= since

\* The comparison of the publication date with the cutoff
IsAfter(p, since) == p > since

\* The articles that one entry adds to the list
ArticlesOfEntry(entry, since) ==
    LET title == Get(entry.title, "No title")
        link == Get(entry.link, "")
        pub_date == PubDate(entry)
    IN IF ~IsNone(pub_date)
       THEN IF IsAfter(Value(pub_date), since)
            THEN << [title |-> title, link |-> link,
                     published |-> IsoFormat(Value(pub_date))] >>
            ELSE << >>
       ELSE << [title |-> title, link |-> link, published |-> Unknown] >>

RECURSIVE ProcessEntries(_, _)
\* The loop over feed.entries
ProcessEntries(entries, since) ==
    IF entries = << >> THEN << >>
    ELSE ArticlesOfEntry(Head(entries), since)
           \o ProcessEntries(Tail(entries), since)

\* A check that fails every feed the parser flags, entries or not
IsBozo(feed) == feed.bozo

\* The check for parsing errors: a malformed feed with no entries
IsParsingError(feed) == feed.bozo /\ feed.entries = << >>

\* The body of the try block: an exception raised, or the article list
TryBody(url, since, response) ==
    IF ~UrlHasScheme(url)
    THEN [kind |-> "raise",
          exc |-> [cls |-> "ValueError", code |-> "",
                   msg |-> <<"unknown url type: ", url>>]]
    ELSE IF response.kind = "raise"
    THEN [kind |-> "raise", exc |-> response.exc]
    ELSE IF IsParsingError(response)
    THEN [kind |-> "raise",
          exc |-> [cls |-> "ValueError", code |-> "",
                   msg |-> <<"Feed parsing error: ">>
                            \o Get(response.bozo_exception,
                                   <<"Unknown parsing error">>)]]
    ELSE [kind |-> "ok",
          articles |-> ProcessEntries(response.entries, since)]

\* The except clauses without the final catch-all
HandlersNoCatchAll == <<"HTTPError", "URLError", "TimeoutError", "ValueError">>

\* The except clauses, in the order in which they are written
Handlers == <<"HTTPError", "URLError", "TimeoutError", "ValueError",
              "Exception">>

\* The first except clause that matches the exception (0: none does)
HandlerOf(exc) ==
    LET matching == {i \in DOMAIN Handlers : IsInstance(exc.cls, Handlers[i])}
    IN IF matching = {} THEN 0
       ELSE CHOOSE i \in matching : \A j \in matching : i <= j

\* error_msg as each except clause builds it
ErrorMsg(handler, exc) ==
    CASE handler = "HTTPError" -> <<"HTTP ", exc.code, ": ">> \o exc.msg
      [] handler = "URLError" -> <<"Connection error: ">> \o exc.msg
      [] handler = "TimeoutError" -> <<"Connection timeout">>
      [] handler = "ValueError" -> exc.msg
      [] OTHER -> IF exc.msg # << >>
                  THEN <<"Unknown error: ">> \o exc.msg
                  ELSE <<"Unknown error">>

\* parse_rss_feed(url, since_time) against the given network response:
\* the returned tuple, or the exception that escapes
ParseRssFeed(url, since, response) ==
    LET body == TryBody(url, since, response)
    IN IF body.kind = "ok"
       THEN [kind |-> "return", articles |-> Some(body.articles),
             error |-> None]
       ELSE LET h == HandlerOf(body.exc)
            IN IF h = 0
               THEN [kind |-> "raise", articles |-> None, error |-> None]
               ELSE [kind |-> "return", articles |-> None,
                     error |-> Some(ErrorMsg(Handlers[h], body.exc))]

----------------------------------------------------------------------------
(* The inputs of SpecParse *)

Cutoff == 280       \* the cutoff of SpecParse, in hours

ParseTimes ==
    {Absent, Attr(None)}
    \cup {Attr(Some(t)) : t \in {Cutoff - 1, Cutoff, Cutoff + 1}}

ParseEntries ==
    [title : {None, Some("t")}, link : {Some("l")},
     published_parsed : ParseTimes, updated_parsed : ParseTimes]

ParseErrors ==
    {[cls |-> "HTTPError", code |-> "404", msg |-> <<"Not Found">>],
     [cls |-> "HTTPError", code |-> "503", msg |-> <<"Unavailable">>],
     [cls |-> "URLError", code |-> "", msg |-> <<"refused">>],
     [cls |-> "TimeoutError", code |-> "", msg |-> <<"timed out">>],
     [cls |-> "OSError", code |-> "", msg |-> <<"reset">>],
     [cls |-> "UnicodeEncodeError", code |-> "", msg |-> <<"can't encode">>],
     [cls |-> "Exception", code |-> "", msg |-> <<"boom">>],
     [cls |-> "Exception", code |-> "", msg |-> << >>]}

\* feedparser sets bozo_exception only on a feed it flags as malformed
ParseBozo ==
    {[bozo |-> FALSE, bozo_exception |-> None],
     [bozo |-> TRUE, bozo_exception |-> None],
     [bozo |-> TRUE, bozo_exception |-> Some(<<"syntax error">>)]}

ParseResponses ==
    {[kind |-> "raise", exc |-> e] : e \in ParseErrors}
    \cup {[kind |-> "content", bozo |-> b.bozo,
            bozo_exception |-> b.bozo_exception, entries |-> es] :
              b \in ParseBozo, es \in SeqsUpTo(ParseEntries, MaxEntries)}

ParseUrls == {"https://a", "example.com/feed"}

ParseInit ==
    /\ pc = "parse_call"
    /\ input \in [url : ParseUrls, since_time : {Cutoff},
                  response : ParseResponses]
    /\ output = None
    /\ args = None /\ now = 0 /\ max_hours = 0 /\ since_time = 0
    /\ config = None /\ idx = 0 /\ results = None /\ total_articles = 0
    /\ calls = << >> /\ artifact = None /\ exit_code = None

\* One call of parse_rss_feed
ParseCall ==
    /\ pc = "parse_call"
    /\ output' = Some(ParseRssFeed(input.url, input.since_time, input.response))
    /\ pc' = "parse_done"
    /\ UNCHANGED <<input, mainVars>>

ParseNext == ParseCall

SpecParse == ParseInit /\ [][ParseNext]_vars

----------------------------------------------------------------------------
(* collect_feeds.main *)

\* datetime.isoformat() of a naive datetime
IsoFormatNaive(p) == [kind |-> "iso", ts |-> p, offset |-> ""]

\* A window that takes the requested hours as they are
RequestedHours(hours) == hours

\* max_hours = max(args.hours, 720)
MaxHours(hours) == Max(hours, MinHours)

\* since_time = now - timedelta(hours=max_hours)
SinceTime(clock, hours) == clock - MaxHours(hours)

\* feed.get("name", "Unknown")
FeedName(feed) == Get(feed.name, "Unknown")

\* feed.get("url", "")
FeedUrl(feed) == Get(feed.url, "")

\* config.get("feeds", [])
ConfigFeeds(cfg) == Get(cfg.feeds, << >>)

\* A loop that skips no feed
NeverNoUrl(feed_url) == FALSE

\* not feed_url: the feed has no URL and is skipped
NoUrl(feed_url) == feed_url = ""

\* d[key] = value on a dict kept in insertion order: a key already present
\* keeps its place and takes the new value
DictSet(d, key, value) ==
    IF \E i \in DOMAIN d : d[i].name = key
    THEN [i \in DOMAIN d |-> IF d[i].name = key
                             THEN [name |-> key] @@ value ELSE d[i]]
    ELSE Append(d, [name |-> key] @@ value)

\* error_reason = error if error else "Unknown"
ErrorReason(error) ==
    IF IsNone(error) \/ Value(error) = << >> THEN <<"Unknown">> ELSE Value(error)

\* A record of failures that puts the newest failure first
RecordFailureFirst(failed_feeds, entry) == <<entry>> \o failed_feeds

\* results["failed_feeds"].append(...)
RecordFailure(failed_feeds, entry) == Append(failed_feeds, entry)

\* A record of successes that does not count the articles
RouteResultNoCount(res, feed_name, feed_url, r) ==
    IF ~IsNone(r.articles)
    THEN [res EXCEPT !.feeds =
            DictSet(@, feed_name,
                    [url |-> feed_url, articles |-> Value(r.articles),
                     count |-> 0])]
    ELSE [res EXCEPT !.failed_feeds =
            RecordFailure(@, [name |-> feed_name, url |-> feed_url,
                              error |-> ErrorReason(r.error)])]

\* The results record after one call of parse_rss_feed has returned
RouteResult(res, feed_name, feed_url, r) ==
    IF ~IsNone(r.articles)
    THEN [res EXCEPT !.feeds =
            DictSet(@, feed_name,
                    [url |-> feed_url, articles |-> Value(r.articles),
                     count |-> Len(Value(r.articles))])]
    ELSE [res EXCEPT !.failed_feeds =
            RecordFailure(@, [name |-> feed_name, url |-> feed_url,
                              error |-> ErrorReason(r.error)])]

\* results["summary"]
Summary(cfg, res, total) ==
    [total_feeds |-> Len(ConfigFeeds(cfg)),
     successful_feeds |-> Len(res.feeds),
     failed_feeds |-> Len(res.failed_feeds),
     total_articles |-> total]

(* The inputs of a run *)

HoursOpts == {24, 720, 744}

Clocks == {1000}

FeedOpts ==
    [name : {None, Some("A"), Some("B")},
     url : {None, Some(""), Some("https://a"), Some("https://b")}]

ConfigFiles ==
    {[kind |-> "missing", feeds |-> None], [kind |-> "invalid", feeds |-> None],
     [kind |-> "json", feeds |-> None]}
    \cup {[kind |-> "json", feeds |-> Some(fs)] : fs \in SeqsUpTo(FeedOpts, MaxFeeds)}

\* What the network and the parser can answer to one request of a run
EntryAt(t) ==
    [title |-> Some("t"), link |-> Some("l"),
     published_parsed |-> Attr(Some(t)), updated_parsed |-> Absent]

EntryUndated ==
    [title |-> Some("t"), link |-> Some("l"),
     published_parsed |-> Attr(None), updated_parsed |-> Absent]

Content(bozo, entries) ==
    [kind |-> "content", bozo |-> bozo, bozo_exception |-> None,
     entries |-> entries]

MainResponses ==
    {[kind |-> "raise",
      exc |-> [cls |-> "HTTPError", code |-> "404", msg |-> <<"Not Found">>]],
     [kind |-> "raise",
      exc |-> [cls |-> "OSError", code |-> "", msg |-> <<"reset">>]],
     Content(TRUE, << >>),
     Content(FALSE, << >>),
     Content(FALSE, <<EntryAt(270)>>),
     Content(TRUE, <<EntryAt(900), EntryUndated>>)}

Init ==
    /\ pc = "start"
    /\ args \in [hours : HoursOpts, config_file : ConfigFiles]
    /\ now \in Clocks
    /\ max_hours = 0 /\ since_time = 0
    /\ config = None /\ idx = 0 /\ results = None /\ total_articles = 0
    /\ calls = << >> /\ artifact = None /\ exit_code = None
    /\ input = None /\ output = None

\* main up to the feed loop: the cutoff, the configuration, the empty record
Start ==
    /\ pc = "start"
    /\ max_hours' = MaxHours(args.hours)
    /\ since_time' = SinceTime(now, args.hours)
    /\ IF args.config_file.kind \in {"missing", "invalid"}
       THEN /\ pc' = "exited"
            /\ exit_code' = Some(1)
            /\ UNCHANGED <<config, idx, results, total_articles>>
       ELSE /\ pc' = "loop"
            /\ config' = Some(args.config_file)
            /\ results' = [metadata |-> [collected_at |-> IsoFormat(now),
                                         since |-> IsoFormatNaive(since_time'),
                                         hours |-> max_hours'],
                           feeds |-> << >>,
                           failed_feeds |-> << >>,
                           summary |-> None]
            /\ total_articles' = 0
            /\ idx' = 1
            /\ UNCHANGED exit_code
    /\ UNCHANGED <<args, now, calls, artifact, input, output>>

\* The feed that the loop is at
CurrentFeed == ConfigFeeds(Value(config))[idx]

InLoop == pc = "loop" /\ idx <= Len(ConfigFeeds(Value(config)))

\* One iteration of the feed loop on a feed without URL: continue
SkipFeed ==
    /\ InLoop
    /\ NoUrl(FeedUrl(CurrentFeed))
    /\ idx' = idx + 1
    /\ UNCHANGED <<pc, args, now, max_hours, since_time, config, results,
                   total_articles, calls, artifact, exit_code, input, output>>

\* What parse_rss_feed can return for the feed that the loop is at: one
\* value for each answer of the network
FetchResults ==
    {ParseRssFeed(FeedUrl(CurrentFeed), since_time, response) :
        response \in MainResponses}

\* A loop that stays on a feed whose fetch has failed, to fetch it again
RetryFailedFeed(i, r) == IF IsNone(r.articles) THEN i ELSE i + 1

\* The for loop takes the next feed, whatever parse_rss_feed returned
NextFeed(i, r) == i + 1

\* One iteration of the feed loop on a feed with a URL: fetch it, and route
\* the outcome into feeds or failed_feeds
FetchFeed ==
    /\ InLoop
    /\ ~NoUrl(FeedUrl(CurrentFeed))
    /\ \E r \in FetchResults :
          /\ calls' = Append(calls, [pos |-> idx, url |-> FeedUrl(CurrentFeed),
                                     since_time |-> since_time, result |-> r])
          /\ IF r.kind = "raise"
             THEN /\ pc' = "crashed"
                  /\ exit_code' = Some(1)
                  /\ UNCHANGED <<idx, results, total_articles>>
             ELSE /\ results' = RouteResult(results, FeedName(CurrentFeed),
                                            FeedUrl(CurrentFeed), r)
                  /\ total_articles' =
                       IF ~IsNone(r.articles)
                       THEN total_articles + Len(Value(r.articles))
                       ELSE total_articles
                  /\ idx' = NextFeed(idx, r)
                  /\ UNCHANGED <<pc, exit_code>>
    /\ UNCHANGED <<args, now, max_hours, since_time, config, artifact,
                   input, output>>

\* main after the feed loop: the summary, and the JSON file written
WriteResults ==
    /\ pc = "loop"
    /\ idx > Len(ConfigFeeds(Value(config)))
    /\ results' = [results EXCEPT
                     !.summary = Some(Summary(Value(config), results,
                                              total_articles))]
    /\ artifact' = Some(results')
    /\ pc' = "done"
    /\ exit_code' = Some(0)
    /\ UNCHANGED <<args, now, max_hours, since_time, config, idx,
                   total_articles, calls, input, output>>

Next == Start \/ SkipFeed \/ FetchFeed \/ WriteResults

Spec == Init /\ [][Next]_vars

(* The inputs of a run under FairSpec: the default window, and feeds with  *)
(* and without URL, of equal and of different names.                       *)

FairFeedOpts == [name : {Some("A"), Some("B")}, url : {None, Some("https://a")}]

FairInit ==
    /\ Init
    /\ args.hours = MinHours
    /\ \/ args.config_file.kind # "json"
       \/ \A i \in DOMAIN ConfigFeeds(args.config_file) :
             ConfigFeeds(args.config_file)[i] \in FairFeedOpts

\* The script is one sequential thread: a step that can be taken is taken
FairSpec == FairInit /\ [][Next]_vars /\ WF_vars(Next)

----------------------------------------------------------------------------
(* generate_feed_slug (utils.py; generate_summary.py holds the same code). *)
(* A string is the sequence of its characters.  The characters of the      *)
(* model are ASCII letters, a digit, the separators the code names, a      *)
(* punctuation mark, and two characters of Unicode named by code point:    *)
(* U+1D400 MATHEMATICAL BOLD CAPITAL A, an uppercase letter that           *)
(* str.lower() leaves unchanged, and U+0130 LATIN CAPITAL LETTER I WITH    *)
(* DOT ABOVE, which str.lower() maps to "i" followed by U+0307 COMBINING   *)
(* DOT ABOVE.                                                              *)

\* str.lower() of one character (the full lowercase mapping)
LowerChar(c) ==
    CASE c = "A" -> <<"a">>
      [] c = "U+0130" -> <<"i", "U+0307">>
      [] OTHER -> <<c>>

RECURSIVE Lower(_)
\* str.lower()
Lower(s) == IF s = << >> THEN << >> ELSE LowerChar(Head(s)) \o Lower(Tail(s))

\* str.isalnum() of one character
IsAlnum(c) ==
    c \in {"A", "a", "i", "7", "U+1D400", "U+0130", "m", "r", "s", "u", "y"}

\* str.replace(old, new) for a one-character old and new
ReplaceChar(s, old, new) ==
    [i \in DOMAIN s |-> IF s[i] = old THEN new ELSE s[i]]

\* The characters kept by the join: alphanumerics and hyphens
KeepChar(c) == IsAlnum(c) \/ c = "-"

\* "--" in s
HasDoubleHyphen(s) == \E i \in 1..(Len(s) - 1) : s[i] = "-" /\ s[i + 1] = "-"

RECURSIVE ReplaceDoubleHyphen(_)
\* s.replace("--", "-"): one pass, left to right, over disjoint occurrences
ReplaceDoubleHyphen(s) ==
    IF Len(s) < 2 THEN s
    ELSE IF s[1] = "-" /\ s[2] = "-"
    THEN <<"-">> \o ReplaceDoubleHyphen(SubSeq(s, 3, Len(s)))
    ELSE <<s[1]>> \o ReplaceDoubleHyphen(Tail(s))

\* One replacement pass, without the loop
CollapseOnce(s) == ReplaceDoubleHyphen(s)

RECURSIVE CollapseHyphens(_)
\* while "--" in s: s = s.replace("--", "-")
CollapseHyphens(s) ==
    IF HasDoubleHyphen(s) THEN CollapseHyphens(ReplaceDoubleHyphen(s)) ELSE s

RECURSIVE LStrip(_)
LStrip(s) == IF s # << >> /\ Head(s) = "-" THEN LStrip(Tail(s)) ELSE s

RECURSIVE RStrip(_)
RStrip(s) ==
    IF s # << >> /\ s[Len(s)] = "-" THEN RStrip(SubSeq(s, 1, Len(s) - 1)) ELSE s

\* s.strip("-")
StripHyphens(s) == RStrip(LStrip(s))

\* generate_feed_slug(feed_name)
GenerateFeedSlug(feed_name) ==
    LET lowered == ReplaceChar(ReplaceChar(Lower(feed_name), " ", "-"), "/", "-")
        kept == SelectSeq(lowered, KeepChar)
    IN StripHyphens(CollapseHyphens(kept))

(* The inputs of SpecSlug *)

SlugChars == {"A", "a", "7", " ", "/", "-", "@", "U+1D400", "U+0130"}

SlugInit ==
    /\ pc = "slug_call"
    /\ input \in SeqsUpTo(SlugChars, MaxLen)
    /\ output = None
    /\ args = None /\ now = 0 /\ max_hours = 0 /\ since_time = 0
    /\ config = None /\ idx = 0 /\ results = None /\ total_articles = 0
    /\ calls = << >> /\ artifact = None /\ exit_code = None

\* One call of generate_feed_slug
SlugCall ==
    /\ pc = "slug_call"
    /\ output' = Some(GenerateFeedSlug(input))
    /\ pc' = "slug_done"
    /\ UNCHANGED <<input, mainVars>>

\* A second call of generate_feed_slug, on the slug that the first returned;
\* input keeps the feed name and calls keeps the first slug
SlugCallAgain ==
    /\ pc = "slug_done"
    /\ calls' = <<Value(output)>>
    /\ output' = Some(GenerateFeedSlug(Value(output)))
    /\ pc' = "slug_again"
    /\ UNCHANGED <<input, args, now, max_hours, since_time, config, idx,
                   results, total_articles, artifact, exit_code>>

SlugNext == SlugCall \/ SlugCallAgain

SpecSlug == SlugInit /\ [][SlugNext]_vars

----------------------------------------------------------------------------
(* The collection report that the renderers read: the artifact of          *)
(* collect_feeds.main, loaded from JSON.  feeds is a dict in the order of  *)
(* the file: a sequence of entries of pairwise different names.  A feed    *)
(* name is the sequence of its characters.  published is a string: an ISO  *)
(* timestamp with or without UTC offset, "Unknown", or any other text.     *)

MaxReportFeeds == 2     \* feeds of a report read by the RSS renderer
MaxArticles == 2        \* articles of one feed of such a report

\* A published string that is neither "Unknown" nor an ISO timestamp
Garbage == [kind |-> "text"]

\* The order of two characters by code point
Ord(c) ==
    CASE c = "A" -> 65
      [] c = "B" -> 66
      [] c = "a" -> 97
      [] c = "b" -> 98
      [] c = "&" -> 38
      [] c = "<" -> 60
      [] c = "m" -> 109
      [] c = "r" -> 114
      [] c = "s" -> 115
      [] c = "u" -> 117
      [] c = "y" -> 121
      [] OTHER -> 0

RECURSIVE StrLess(_, _)
\* s < t on Python strings: lexicographic by code point
StrLess(s, t) ==
    IF t = << >> THEN FALSE
    ELSE IF s = << >> THEN TRUE
    ELSE IF Head(s) = Head(t) THEN StrLess(Tail(s), Tail(t))
    ELSE Ord(Head(s)) < Ord(Head(t))

\* sorted(entries) on entries of pairwise different names: each entry at the
\* rank of its name
SortedByName(entries) ==
    LET Rank(i) == 1 + Cardinality({j \in DOMAIN entries :
                                       StrLess(entries[j].name, entries[i].name)})
    IN [r \in DOMAIN entries |->
          entries[CHOOSE i \in DOMAIN entries : Rank(i) = r]]

----------------------------------------------------------------------------
(* generate_rss.py *)

\* datetime.min, a naive datetime before every timestamp
DatetimeMin == [aware |-> FALSE, t |-> 0]

\* parse_iso_timestamp(iso_string): the datetime, aware if and only if the
\* string carries an offset ("Z" reads as "+00:00"), or ValueError
ParseIsoTimestamp(iso_string) ==
    IF iso_string.kind = "iso"
    THEN [ok |-> TRUE, aware |-> iso_string.offset # "", t |-> iso_string.ts]
    ELSE [ok |-> FALSE, aware |-> FALSE, t |-> 0]

\* dt.strftime("%a, %d %b %Y %H:%M:%S +0000")
Rfc822(t) == [kind |-> "rfc822", t |-> t, zone |-> "+0000"]

\* format_rfc822_date(iso_date_str), called when the clock reads clock
FormatRfc822Date(iso_date_str, clock) ==
    LET dt == ParseIsoTimestamp(iso_date_str)
    IN IF dt.ok THEN Rfc822(dt.t) ELSE Rfc822(clock)

\* One <item> of create_rss_feed
RssItem(article, clock) ==
    [title |-> article.title,
     link |-> article.link,
     guid |-> article.link,
     pubDate |-> IF article.published # Unknown
                 THEN Some(FormatRfc822Date(article.published, clock))
                 ELSE None,
     source |-> IF "source" \in DOMAIN article THEN Some(article.source)
                ELSE None]

\* create_rss_feed(title, link, description, articles, last_build_date)
CreateRssFeed(title, link, description, articles, last_build_date, clock) ==
    [title |-> title, link |-> link, description |-> description,
     lastBuildDate |-> FormatRfc822Date(last_build_date, clock),
     generator |-> "DevOps Feed Hub RSS Generator",
     items |-> [i \in DOMAIN articles |-> RssItem(articles[i], clock)]]

\* get_sort_key(article), the same in generate_master_feed,
\* generate_individual_feed and utils.get_article_sort_key
GetSortKey(article) ==
    IF article.published # Unknown
    THEN LET dt == ParseIsoTimestamp(article.published)
         IN IF dt.ok THEN [aware |-> dt.aware, t |-> dt.t] ELSE DatetimeMin
    ELSE DatetimeMin

\* The sort compares an offset-aware with an offset-naive datetime, which
\* raises TypeError
SortRaises(articles) ==
    \E i, j \in DOMAIN articles :
        GetSortKey(articles[i]).aware # GetSortKey(articles[j]).aware

\* An order that puts a later article before an earlier one of equal key
PrecedesUnstable(earlier, later) == earlier.t > later.t

\* An order by ascending key
PrecedesOldestFirst(earlier, later) == earlier.t <= later.t

\* sort(reverse=True): an article that comes earlier in the input stays
\* before a later one unless its key is smaller
Precedes(earlier, later) == earlier.t >= later.t

\* The sorted list with one more article of the input put in its place
InsertByKey(sorted, a) ==
    LET n == Cardinality({i \in DOMAIN sorted :
                            Precedes(GetSortKey(sorted[i]), GetSortKey(a))})
    IN SubSeq(sorted, 1, n) \o <<a>> \o SubSeq(sorted, n + 1, Len(sorted))

RECURSIVE SortInto(_, _)
SortInto(sorted, rest) ==
    IF rest = << >> THEN sorted
    ELSE SortInto(InsertByKey(sorted, Head(rest)), Tail(rest))

\* sorted(articles, key=get_sort_key, reverse=True): the list, or TypeError
SortArticlesByDate(articles) ==
    IF SortRaises(articles)
    THEN [kind |-> "raise", cls |-> "TypeError", value |-> << >>]
    ELSE [kind |-> "return", cls |-> "", value |-> SortInto(<< >>, articles)]

\* article_with_source
WithSource(article, feed_name) == article @@ [source |-> feed_name]

\* A write of the source into the article of the report itself
SourceInPlace(article, feed_name) ==
    [original |-> WithSource(article, feed_name),
     copy |-> WithSource(article, feed_name)]

\* article_with_source = article.copy(); article_with_source["source"] =
\* feed_name: the article of the report after the two statements, and the copy
CopyWithSource(article, feed_name) ==
    [original |-> article, copy |-> WithSource(article, feed_name)]

RECURSIVE AllArticles(_)
\* all_articles: the articles of every feed, feed by feed
AllArticles(feeds) ==
    IF feeds = << >> THEN << >>
    ELSE [i \in DOMAIN Head(feeds).articles |->
             CopyWithSource(Head(feeds).articles[i], Head(feeds).name).copy]
         \o AllArticles(Tail(feeds))

\* The report after generate_master_feed(data): all_articles is a list of
\* its own, that the sort reorders; the articles of the report are what the
\* loop leaves of them
ReportAfterMasterFeed(data) ==
    [data EXCEPT !.feeds =
        [k \in DOMAIN data.feeds |->
            [data.feeds[k] EXCEPT !.articles =
                [i \in DOMAIN data.feeds[k].articles |->
                    CopyWithSource(data.feeds[k].articles[i],
                                   data.feeds[k].name).original]]]]

BaseUrl == <<"https://mudman1986.github.io/devops-feed-hub">>

\* generate_master_feed(data)
GenerateMasterFeed(data, clock) ==
    LET sorted == SortArticlesByDate(AllArticles(data.feeds))
    IN IF sorted.kind = "raise" THEN sorted
       ELSE [kind |-> "return", cls |-> "",
             value |-> CreateRssFeed(
                 <<"DevOps Feed Hub - All Articles">>,
                 BaseUrl \o <<"/feed.xml">>,
                 <<"Aggregated DevOps, cloud, and technology news from multiple sources">>,
                 sorted.value, data.metadata.collected_at, clock)]

\* generate_individual_feed(feed_name, feed_data, collected_at)
GenerateIndividualFeed(feed_name, feed_data, collected_at, clock) ==
    LET feed_slug == GenerateFeedSlug(feed_name)
        sorted == SortArticlesByDate(feed_data.articles)
    IN IF sorted.kind = "raise" THEN sorted
       ELSE [kind |-> "return", cls |-> "",
             value |-> CreateRssFeed(
                 <<"DevOps Feed Hub - ">> \o feed_name,
                 BaseUrl \o <<"/feed-">> \o feed_slug \o <<".xml">>,
                 <<"Articles from ">> \o feed_name,
                 sorted.value, collected_at, clock)]

\* open(path, "w").write(content): a file of that path is replaced
WriteFile(files, path, content) ==
    IF \E i \in DOMAIN files : files[i].path = path
    THEN [i \in DOMAIN files |->
            IF files[i].path = path THEN [path |-> path, content |-> content]
            ELSE files[i]]
    ELSE Append(files, [path |-> path, content |-> content])

RECURSIVE WriteIndividualFeeds(_, _, _, _)
\* The loop of generate_all_feeds over sorted(data["feeds"].keys()): the
\* files written, and whether the loop ended or raised
WriteIndividualFeeds(files, feeds, collected_at, clock) ==
    IF feeds = << >> THEN [kind |-> "return", files |-> files]
    ELSE LET feed == Head(feeds)
             xml == GenerateIndividualFeed(feed.name, feed, collected_at, clock)
         IN IF xml.kind = "raise" THEN [kind |-> "raise", files |-> files]
            ELSE WriteIndividualFeeds(
                    WriteFile(files,
                              <<"feed-">> \o GenerateFeedSlug(feed.name) \o <<".xml">>,
                              xml.value),
                    Tail(feeds), collected_at, clock)

\* generate_all_feeds(data, output_dir)
GenerateAllFeeds(data, clock) ==
    LET master == GenerateMasterFeed(data, clock)
    IN IF master.kind = "raise" THEN [kind |-> "raise", files |-> << >>]
       ELSE WriteIndividualFeeds(
               WriteFile(<< >>, <<"feed.xml">>, master.value),
               SortedByName(data.feeds), data.metadata.collected_at, clock)

\* generate_rss.main: the exit status and the files written.  An exception
\* that no handler catches ends the process with status 1.
GenerateRssMain(file, clock) ==
    IF file.kind \in {"missing", "invalid"}
    THEN [exit_code |-> 1, files |-> << >>]
    ELSE LET run == GenerateAllFeeds(Value(file.data), clock)
         IN [exit_code |-> IF run.kind = "raise" THEN 1 ELSE 0,
             files |-> run.files]

(* The inputs of SpecRss *)

RssNames == {<<"A">>, <<"B">>}

PublishedOpts ==
    {IsoFormat(10), IsoFormatNaive(10), IsoFormatNaive(11), Unknown, Garbage}

\* The articles of a feed: the title tells the feed and the position
ArticlesOf(name, published) ==
    [i \in DOMAIN published |->
        [title |-> <<name, i>>, link |-> <<"https://x/", name, i>>,
         published |-> published[i]]]

FeedEntry(name, published) ==
    [name |-> name, url |-> "https://a",
     articles |-> ArticlesOf(name, published), count |-> Len(published)]

\* Lists of pairwise different names: the keys of a dict, in its order
NameLists(names, n) ==
    {ns \in SeqsUpTo(names, n) : \A i, j \in DOMAIN ns : i # j => ns[i] # ns[j]}

\* The published strings of the articles of one feed
RssPublished == SeqsUpTo(PublishedOpts, MaxArticles)

RECURSIVE SumCounts(_)
SumCounts(feeds) ==
    IF feeds = << >> THEN 0 ELSE Head(feeds).count + SumCounts(Tail(feeds))

\* A report as collect_feeds writes it for feeds of different names
Report(collected_at, feeds) ==
    [metadata |-> [collected_at |-> collected_at, hours |-> MinHours],
     feeds |-> feeds, failed_feeds |-> << >>,
     summary |-> [total_feeds |-> Len(feeds), successful_feeds |-> Len(feeds),
                  failed_feeds |-> 0, total_articles |-> SumCounts(feeds)]]

\* collected_at: a timestamp that parses, or a string that does not
RssCollectedAt == {IsoFormat(1000), Garbage}

\* The report with the given feed names and, feed by feed, the published
\* strings of its articles
RssReport(collected_at, names, published) ==
    Report(collected_at,
           [i \in DOMAIN names |-> FeedEntry(names[i], published[i])])

RssClocks == {2000}

RssInit ==
    /\ pc = "rss_start"
    /\ \/ input \in [file : {[kind |-> "missing", data |-> None],
                              [kind |-> "invalid", data |-> None]}]
       \/ \E names \in NameLists(RssNames, MaxReportFeeds) :
             \E published \in [DOMAIN names -> RssPublished] :
                \E collected_at \in RssCollectedAt :
                   input = [file |->
                              [kind |-> "json",
                               data |-> Some(RssReport(collected_at, names,
                                                       published))]]
    /\ now \in RssClocks
    /\ output = << >>
    /\ args = None /\ max_hours = 0 /\ since_time = 0
    /\ config = None /\ idx = 0 /\ results = None /\ total_articles = 0
    /\ calls = << >> /\ artifact = None /\ exit_code = None

\* One run of generate_rss.py on the input file; the clock moves on before
\* the next run
RunGenerateRss ==
    /\ pc \in {"rss_start", "rss_once"}
    /\ LET run == GenerateRssMain(input.file, now)
       IN /\ output' = Append(output, [clock |-> now] @@ run)
          /\ exit_code' = Some(run.exit_code)
    /\ pc' = IF pc = "rss_start" THEN "rss_once" ELSE "rss_twice"
    /\ now' = now + 1
    /\ UNCHANGED <<input, args, max_hours, since_time, config, idx, results,
                   total_articles, calls, artifact>>

\* One call of utils.sort_articles_by_date on the articles of the first feed
CallSortArticlesByDate ==
    /\ pc = "rss_start"
    /\ input.file.kind = "json"
    /\ Value(input.file.data).feeds # << >>
    /\ output' = <<SortArticlesByDate(Value(input.file.data).feeds[1].articles)>>
    /\ pc' = "rss_sorted"
    /\ UNCHANGED <<input, now, args, max_hours, since_time, config, idx,
                   results, total_articles, calls, artifact, exit_code>>

RssNext == RunGenerateRss \/ CallSortArticlesByDate

SpecRss == RssInit /\ [][RssNext]_vars

----------------------------------------------------------------------------
(* generate_markdown_summary (generate_summary.py; the script             *)
(* src/actions/collect-rss-feeds/generate_markdown_summary.py holds the    *)
(* same function).  The summary is the sequence of the strings that the    *)
(* function joins with newlines; a title is the sequence of its            *)
(* characters.                                                             *)

MaxCount == 12          \* articles of one feed of a summarised report
MaxTitleLen == 83       \* characters of an article title
MaxMdFeeds == 2         \* feeds of a summarised report

MaxRows == 10           \* generate_summary.py:66
TitleMax == 80          \* generate_summary.py:69

\* A cut that also shortens a title of exactly 80 characters
IsAtLeastTitleMax(title) == Len(title) >= TitleMax

\* len(article["title"]) > 80
IsTooLong(title) == Len(title) > TitleMax

\* The title as the table shows it
ShownTitle(title) ==
    IF IsTooLong(title)
    THEN SubSeq(title, 1, TitleMax) \o <<".", ".", ".">>
    ELSE title

\* A table that shows every article
AllRows(articles) == articles

\* feed_data["articles"][:10]
FirstRows(articles) ==
    SubSeq(articles, 1, IF Len(articles) < MaxRows THEN Len(articles) ELSE MaxRows)

\* The strings appended for one feed
MarkdownOfFeed(feed) ==
    <<[kind |-> "feed", name |-> feed.name],
      [kind |-> "articles", count |-> feed.count]>>
    \o (IF feed.articles # << >>
        THEN <<[kind |-> "table_head"], [kind |-> "table_rule"]>>
             \o [i \in DOMAIN FirstRows(feed.articles) |->
                   [kind |-> "row",
                    title |-> ShownTitle(feed.articles[i].title),
                    link |-> feed.articles[i].link,
                    published |-> feed.articles[i].published]]
             \o (IF feed.count > MaxRows
                 THEN <<[kind |-> "more", n |-> feed.count - MaxRows]>>
                 ELSE << >>)
        ELSE <<[kind |-> "no_articles"]>>)
    \o <<[kind |-> "blank"]>>

RECURSIVE MarkdownOfFeeds(_)
MarkdownOfFeeds(feeds) ==
    IF feeds = << >> THEN << >>
    ELSE MarkdownOfFeed(Head(feeds)) \o MarkdownOfFeeds(Tail(feeds))

\* generate_markdown_summary(data)
GenerateMarkdownSummary(data) ==
    <<[kind |-> "title"],
      [kind |-> "collected_at", value |-> data.metadata.collected_at],
      [kind |-> "time_range", hours |-> data.metadata.hours],
      [kind |-> "note"],
      [kind |-> "blank"],
      [kind |-> "summary_head"],
      [kind |-> "total_feeds", value |-> data.summary.total_feeds],
      [kind |-> "successful", value |-> data.summary.successful_feeds],
      [kind |-> "failed", value |-> data.summary.failed_feeds],
      [kind |-> "total_articles", value |-> data.summary.total_articles],
      [kind |-> "blank"]>>
    \o (IF data.feeds # << >>
        THEN <<[kind |-> "feeds_head"]>> \o MarkdownOfFeeds(data.feeds)
        ELSE << >>)
    \o (IF data.failed_feeds # << >>
        THEN <<[kind |-> "failed_head"], [kind |-> "failed_table_head"],
               [kind |-> "failed_table_rule"]>>
             \o [i \in DOMAIN data.failed_feeds |->
                   [kind |-> "failed_row", name |-> data.failed_feeds[i].name,
                    url |-> data.failed_feeds[i].url,
                    error |-> data.failed_feeds[i].error]]
             \o <<[kind |-> "blank"]>>
        ELSE << >>)

\* main of either script with a Markdown output path: the exit status and
\* the Markdown file written
MarkdownMain(file) ==
    IF file.kind \in {"missing", "invalid"}
    THEN [exit_code |-> 1, markdown |-> None]
    ELSE [exit_code |-> 0,
          markdown |-> Some(GenerateMarkdownSummary(Value(file.data)))]

(* The inputs of SpecMarkdown *)

ArticleCounts == {0, 1, MaxRows, MaxRows + 1, MaxCount}

TitleLens == {1, TitleMax, TitleMax + 1, MaxTitleLen}

\* A title of n characters; the characters after the 80th differ from the
\* first 80
TitleOfLen(n) == [i \in 1..n |-> IF i <= TitleMax THEN "x" ELSE "y"]

MdFeedEntry(name, n, len) ==
    [name |-> name, url |-> "https://a",
     articles |-> [i \in 1..n |->
                     [title |-> TitleOfLen(len), link |-> <<"https://x/", name, i>>,
                      published |-> IF i = 1 THEN Unknown ELSE IsoFormat(i)]],
     count |-> n]

MdFeedLists ==
    {fs \in SeqsUpTo([name : RssNames, n : ArticleCounts, len : TitleLens],
                     MaxMdFeeds) :
        \A i, j \in DOMAIN fs : i # j => fs[i].name # fs[j].name}

MdFailedFeeds ==
    {<< >>, <<[name |-> <<"C">>, url |-> "https://c",
               error |-> <<"HTTP ", "404", ": ", "Not Found">>]>>}

MdReports ==
    {[Report(IsoFormat(1000),
             [i \in DOMAIN fs |-> MdFeedEntry(fs[i].name, fs[i].n, fs[i].len)])
        EXCEPT !.failed_feeds = ff,
               !.summary.failed_feeds = Len(ff),
               !.summary.total_feeds = Len(fs) + Len(ff)] :
        fs \in MdFeedLists, ff \in MdFailedFeeds}

MdFiles ==
    {[kind |-> "missing", data |-> None], [kind |-> "invalid", data |-> None]}
    \cup {[kind |-> "json", data |-> Some(d)] : d \in MdReports}

MdInit ==
    /\ pc = "md_start"
    /\ input \in [file : MdFiles]
    /\ output = None
    /\ args = None /\ now = 0 /\ max_hours = 0 /\ since_time = 0
    /\ config = None /\ idx = 0 /\ results = None /\ total_articles = 0
    /\ calls = << >> /\ artifact = None /\ exit_code = None

\* One run of generate_summary.py --markdown
RunGenerateSummaryMarkdown ==
    /\ pc = "md_start"
    /\ LET run == MarkdownMain(input.file)
       IN /\ output' = Some([script |-> "generate_summary"] @@ run)
          /\ exit_code' = Some(run.exit_code)
    /\ pc' = "md_done"
    /\ UNCHANGED <<input, now, args, max_hours, since_time, config, idx,
                   results, total_articles, calls, artifact>>

\* One run of generate_markdown_summary.py
RunGenerateMarkdownSummary ==
    /\ pc = "md_start"
    /\ LET run == MarkdownMain(input.file)
       IN /\ output' = Some([script |-> "generate_markdown_summary"] @@ run)
          /\ exit_code' = Some(run.exit_code)
    /\ pc' = "md_done"
    /\ UNCHANGED <<input, now, args, max_hours, since_time, config, idx,
                   results, total_articles, calls, artifact>>

MdNext == RunGenerateSummaryMarkdown \/ RunGenerateMarkdownSummary

SpecMarkdown == MdInit /\ [][MdNext]_vars

----------------------------------------------------------------------------
(* generate_html_content (generate_summary.py): the content of the index   *)
(* page and of the page of one feed, as the sequence of its feed sections. *)

MaxHtmlFeeds == 3       \* feeds of a report shown as HTML

\* A character written as it is
RawChar(c) == <<c>>

\* html.escape of one character (quote=True)
HtmlEscapeChar(c) ==
    CASE c = "&" -> <<"&amp;">>
      [] c = "<" -> <<"&lt;">>
      [] c = ">" -> <<"&gt;">>
      [] c = "\"" -> <<"&quot;">>
      [] c = "'" -> <<"&#x27;">>
      [] OTHER -> <<c>>

RECURSIVE HtmlEscape(_)
\* html_escape(s)
HtmlEscape(s) ==
    IF s = << >> THEN << >> ELSE HtmlEscapeChar(Head(s)) \o HtmlEscape(Tail(s))

\* format_publish_date(iso_date_str): the date in words, or the string
\* itself if it does not parse
FormatPublishDate(iso_date_str) ==
    LET dt == ParseIsoTimestamp(iso_date_str)
    IN IF dt.ok THEN [kind |-> "words", t |-> dt.t] ELSE iso_date_str

\* html_escape of a date string: an ISO timestamp, "Unknown" and a date in
\* words hold no character that html.escape replaces; any other string is
\* escaped character by character
HtmlEscapeDate(date) ==
    IF "text" \in DOMAIN date
    THEN [date EXCEPT !.text = HtmlEscape(date.text)]
    ELSE date

\* One <li> of generate_feed_articles_content
HtmlArticle(article) ==
    [title |-> HtmlEscape(article.title),
     link |-> HtmlEscape(article.link),
     published |-> HtmlEscapeDate(article.published),
     meta |-> HtmlEscapeDate(FormatPublishDate(article.published))]

\* generate_feed_articles_content(feeds_to_display)
GenerateFeedArticlesContent(feeds_to_display) ==
    [k \in DOMAIN feeds_to_display |->
        LET feed_data == feeds_to_display[k]
        IN [name |-> HtmlEscape(feed_data.name),
            count |-> feed_data.count,
            plural |-> IF feed_data.count # 1 THEN "s" ELSE "",
            articles |-> [i \in DOMAIN feed_data.articles |->
                            HtmlArticle(feed_data.articles[i])]]]

\* A split that takes every feed as a feed with articles
IsAnyFeed(feed_data) == TRUE

\* feed_data["count"] > 0
HasArticles(feed_data) == feed_data.count > 0

IsEmptyFeed(feed_data) == ~HasArticles(feed_data)

\* if current_feed: neither None nor the empty string
Truthy(current_feed) == ~IsNone(current_feed) /\ Value(current_feed) # << >>

\* feeds_to_display: the one feed of a feed page; on the index page the
\* feeds with articles, sorted by name, then the empty feeds, sorted by name
FeedsToDisplay(data, current_feed) ==
    IF Truthy(current_feed)
    THEN SelectSeq(data.feeds, LAMBDA f : f.name = Value(current_feed))
    ELSE SortedByName(SelectSeq(data.feeds, HasArticles))
           \o SortedByName(SelectSeq(data.feeds, IsEmptyFeed))

\* The strings "summary" and "failed"
SummaryPage == <<"s", "u", "m", "m", "a", "r", "y">>
FailedPage == <<"f", "a", "i", "l", "e", "d">>

\* generate_failed_feeds_content(failed_feeds)
GenerateFailedFeedsContent(failed_feeds) ==
    <<[failed_heading |-> "Failed Feeds"]>>
    \o (IF failed_feeds # << >>
        THEN [i \in DOMAIN failed_feeds |->
                [failed_name |-> HtmlEscape(failed_feeds[i].name),
                 failed_url |-> HtmlEscape(failed_feeds[i].url),
                 failed_error |-> HtmlEscape(failed_feeds[i].error)]]
        ELSE <<[no_failed |-> "No failed feeds"]>>)

\* sorted(data["feeds"].items(), key=count, reverse=True): by count, the
\* larger first, feeds of equal count in the order of the report
SortedByCount(entries) ==
    LET Rank(i) == 1 + Cardinality({j \in DOMAIN entries :
                        \/ entries[j].count > entries[i].count
                        \/ entries[j].count = entries[i].count /\ j < i})
    IN [r \in DOMAIN entries |->
          entries[CHOOSE i \in DOMAIN entries : Rank(i) = r]]

\* The content of the summary page: the statistics, the failed feeds if
\* there are any, and the feed breakdown
SummaryContent(data) ==
    LET sorted_feeds == SortedByCount(data.feeds)
    IN <<[stats |-> data.summary]>>
       \o (IF data.failed_feeds # << >>
           THEN GenerateFailedFeedsContent(data.failed_feeds) ELSE << >>)
       \o [k \in DOMAIN sorted_feeds |->
             [breakdown_name |-> HtmlEscape(sorted_feeds[k].name),
              href |-> <<"feed-">> \o GenerateFeedSlug(sorted_feeds[k].name)
                         \o <<".html">>,
              count |-> sorted_feeds[k].count]]

\* generate_html_content(data, current_feed): the content of the summary
\* page, of the failed feeds page, of the page of a feed, or of the index
GenerateHtmlContent(data, current_feed) ==
    IF current_feed = Some(SummaryPage) THEN SummaryContent(data)
    ELSE IF current_feed = Some(FailedPage)
    THEN GenerateFailedFeedsContent(data.failed_feeds)
    ELSE (IF Truthy(current_feed)
          THEN <<[heading |-> HtmlEscape(Value(current_feed))]>> ELSE << >>)
         \o GenerateFeedArticlesContent(FeedsToDisplay(data, current_feed))

(* The inputs of SpecHtml *)

HtmlNames == {<<"A">>, <<"B">>, <<"a">>, <<"A", "&">>}

HtmlCounts == {0, 1, 2}

HtmlFeedEntry(name, n) ==
    [name |-> name, url |-> "https://a",
     articles |-> [i \in 1..n |->
                     [title |-> name \o [j \in 1..i |-> "<"],
                      link |-> <<"https://x/">> \o name \o [j \in 1..i |-> "&"],
                      published |-> IF i = 1 THEN Unknown ELSE IsoFormat(10)]],
     count |-> n]

HtmlFeedLists ==
    {fs \in SeqsUpTo([name : HtmlNames, n : HtmlCounts], MaxHtmlFeeds) :
        \A i, j \in DOMAIN fs : i # j => fs[i].name # fs[j].name}

HtmlReports ==
    {Report(IsoFormat(1000),
            [i \in DOMAIN fs |-> HtmlFeedEntry(fs[i].name, fs[i].n)]) :
        fs \in HtmlFeedLists}

HtmlInit ==
    /\ pc = "html_start"
    /\ input \in [data : HtmlReports]
    /\ output = None
    /\ args = None /\ now = 0 /\ max_hours = 0 /\ since_time = 0
    /\ config = None /\ idx = 0 /\ results = None /\ total_articles = 0
    /\ calls = << >> /\ artifact = None /\ exit_code = None

\* generate_html_content(data): the index page
CallHtmlIndexContent ==
    /\ pc = "html_start"
    /\ output' = Some(GenerateHtmlContent(input.data, None))
    /\ pc' = "html_index"
    /\ UNCHANGED <<input, mainVars>>

\* generate_html_content(data, current_feed=feed_name): the page of a feed
CallHtmlFeedContent ==
    /\ pc = "html_start"
    /\ \E i \in DOMAIN input.data.feeds :
          output' = Some(GenerateHtmlContent(input.data,
                                             Some(input.data.feeds[i].name)))
    /\ pc' = "html_feed"
    /\ UNCHANGED <<input, mainVars>>

HtmlNext == CallHtmlIndexContent \/ CallHtmlFeedContent

SpecHtml == HtmlInit /\ [][HtmlNext]_vars

----------------------------------------------------------------------------
(* generate_summary.py: the pages of the site.  A page is the template     *)
(* with its placeholders replaced: the title, the content, the sidebar and *)
(* the timestamp.  The template file is an input of the run: it is read    *)
(* with success, or it is missing, or it cannot be read.                   *)

MaxPageFeeds == 2       \* feeds of a report rendered as pages

\* generate_feed_nav(feeds, current_feed): the links of the sidebar
GenerateFeedNav(feeds, current_feed) ==
    LET sorted == SortedByName(feeds)
    IN <<[href |-> <<"index.html">>, active |-> IsNone(current_feed),
          label |-> <<"All Feeds">>]>>
       \o [k \in DOMAIN sorted |->
             [href |-> <<"feed-">> \o GenerateFeedSlug(sorted[k].name)
                        \o <<".html">>,
              active |-> current_feed = Some(sorted[k].name),
              label |-> HtmlEscape(sorted[k].name)]]
       \o <<[href |-> <<"summary.html">>,
             active |-> current_feed = Some(SummaryPage),
             label |-> <<"Summary">>]>>

\* A reader that falls back to a built-in template
ReadTemplateOrDefault(template) ==
    [kind |-> "return", cls |-> ""]

\* open(template_path).read(): the template, or the exception raised again
ReadTemplate(template) ==
    CASE template = "missing" -> [kind |-> "raise", cls |-> "FileNotFoundError"]
      [] template = "unreadable" -> [kind |-> "raise", cls |-> "OSError"]
      [] OTHER -> [kind |-> "return", cls |-> ""]

\* page_title
PageTitle(current_feed) ==
    IF current_feed = Some(SummaryPage) THEN <<"Summary - DevOps Feed Hub">>
    ELSE IF current_feed = Some(FailedPage)
    THEN <<"Failed Feeds - DevOps Feed Hub">>
    ELSE IF Truthy(current_feed)
    THEN Value(current_feed) \o <<" - DevOps Feed Hub">>
    ELSE <<"DevOps Feed Hub">>

\* generate_html_page(data, template_path, current_feed): the page, or the
\* exception of the template read, or ValueError of a collected_at that
\* does not parse
GenerateHtmlPage(data, template, current_feed) ==
    LET read == ReadTemplate(template)
        collected_time == ParseIsoTimestamp(data.metadata.collected_at)
    IN IF read.kind = "raise"
       THEN [kind |-> "raise", cls |-> read.cls, value |-> << >>]
       ELSE IF ~collected_time.ok
       THEN [kind |-> "raise", cls |-> "ValueError", value |-> << >>]
       ELSE [kind |-> "return", cls |-> "",
             value |-> [title |-> HtmlEscape(PageTitle(current_feed)),
                        content |-> GenerateHtmlContent(data, current_feed),
                        sidebar |-> GenerateFeedNav(data.feeds, current_feed),
                        timestamp |-> [kind |-> "words", t |-> collected_time.t],
                        cache_version |-> collected_time.t]]

RECURSIVE WriteFeedPages(_, _, _, _)
\* The loop of generate_all_pages over sorted(data["feeds"].keys())
WriteFeedPages(files, feeds, data, template) ==
    IF feeds = << >> THEN [kind |-> "return", cls |-> "", files |-> files]
    ELSE LET feed_name == Head(feeds).name
             feed_html == GenerateHtmlPage(data, template, Some(feed_name))
         IN IF feed_html.kind = "raise"
            THEN [kind |-> "raise", cls |-> feed_html.cls, files |-> files]
            ELSE WriteFeedPages(
                    WriteFile(files,
                              <<"feed-">> \o GenerateFeedSlug(feed_name)
                                \o <<".html">>,
                              feed_html.value),
                    Tail(feeds), data, template)

\* generate_all_pages(data, output_dir): the files written, and whether the
\* function returned or raised
GenerateAllPages(data, template) ==
    LET index_html == GenerateHtmlPage(data, template, None)
        summary_html == GenerateHtmlPage(data, template, Some(SummaryPage))
    IN IF index_html.kind = "raise"
       THEN [kind |-> "raise", cls |-> index_html.cls, files |-> << >>]
       ELSE IF summary_html.kind = "raise"
       THEN [kind |-> "raise", cls |-> summary_html.cls,
             files |-> WriteFile(<< >>, <<"index.html">>, index_html.value)]
       ELSE WriteFeedPages(
               WriteFile(WriteFile(<< >>, <<"index.html">>, index_html.value),
                         <<"summary.html">>, summary_html.value),
               SortedByName(data.feeds), data, template)

\* generate_summary.main with --markdown (if asked for) and --output-dir:
\* the Markdown file is written first, then the pages; an exception that
\* no handler catches ends the process with status 1
GenerateSummaryMain(file, markdown, template) ==
    IF file.kind \in {"missing", "invalid"}
    THEN [exit_code |-> 1, cls |-> "", markdown |-> None, files |-> << >>]
    ELSE LET data == Value(file.data)
             pages == GenerateAllPages(data, template)
         IN [exit_code |-> IF pages.kind = "raise" THEN 1 ELSE 0,
             cls |-> pages.cls,
             markdown |-> IF markdown
                          THEN Some(GenerateMarkdownSummary(data)) ELSE None,
             files |-> pages.files]

(* The inputs of SpecPages *)

\* Feed names: two names of one slug, a name that holds markup, and the
\* name "summary"
PageNames == {<<"A">>, <<"a">>, <<"A", "<">>, SummaryPage}

\* The articles of a feed: the title, the link and the date of the second
\* article hold characters that html.escape replaces
PageFeedEntry(name, n) ==
    [name |-> name, url |-> "https://a",
     articles |-> [i \in 1..n |->
                     [title |-> name \o [j \in 1..i |-> "<"],
                      link |-> <<"https://x/">> \o name
                                 \o [j \in 1..i |-> "&"] \o <<"\"">>,
                      published |-> IF i = 1 THEN IsoFormat(10)
                                    ELSE [kind |-> "text",
                                          text |-> <<"<", "1", ">">>]]],
     count |-> n]

PageFailedFeeds ==
    {<< >>, <<[name |-> <<"C", "<">>, url |-> <<"https://c/?", "&", "'">>,
               error |-> <<"HTTP ", "404", ": ", "<", "h1", ">">>]>>}

\* The report with the given feed names, article counts and failed feeds
PageReport(collected_at, names, counts, failed) ==
    [Report(collected_at,
            [i \in DOMAIN names |-> PageFeedEntry(names[i], counts[i])])
        EXCEPT !.failed_feeds = failed,
               !.summary.failed_feeds = Len(failed),
               !.summary.total_feeds = Len(names) + Len(failed)]

PagesInit ==
    /\ pc = "pages_start"
    /\ \E template \in {"ok", "missing", "unreadable"}, markdown \in BOOLEAN :
          \/ \E kind \in {"missing", "invalid"} :
                input = [file |-> [kind |-> kind, data |-> None],
                         markdown |-> markdown, template |-> template]
          \/ \E names \in NameLists(PageNames, MaxPageFeeds) :
                \E counts \in [DOMAIN names -> HtmlCounts] :
                   \E failed \in PageFailedFeeds :
                      \E collected_at \in RssCollectedAt :
                         input = [file |->
                                    [kind |-> "json",
                                     data |-> Some(PageReport(collected_at, names,
                                                              counts, failed))],
                                  markdown |-> markdown, template |-> template]
    /\ output = None
    /\ args = None /\ now = 0 /\ max_hours = 0 /\ since_time = 0
    /\ config = None /\ idx = 0 /\ results = None /\ total_articles = 0
    /\ calls = << >> /\ artifact = None /\ exit_code = None

\* One run of generate_summary.py --input ... [--markdown ...] --output-dir ...
RunGenerateSummary ==
    /\ pc = "pages_start"
    /\ LET run == GenerateSummaryMain(input.file, input.markdown, input.template)
       IN /\ output' = Some(run)
          /\ exit_code' = Some(run.exit_code)
    /\ pc' = "pages_done"
    /\ UNCHANGED <<input, args, now, max_hours, since_time, config, idx,
                   results, total_articles, calls, artifact>>

\* generate_html_page(data, template_path, current_feed=feed_name): the
\* page of one feed of the report
CallGenerateHtmlPage ==
    /\ pc = "pages_start"
    /\ input.file.kind = "json"
    /\ \E i \in DOMAIN Value(input.file.data).feeds :
          /\ calls' = <<i>>
          /\ output' = Some(GenerateHtmlPage(
                               Value(input.file.data), input.template,
                               Some(Value(input.file.data).feeds[i].name)))
    /\ pc' = "page_done"
    /\ UNCHANGED <<input, args, now, max_hours, since_time, config, idx,
                   results, total_articles, artifact, exit_code>>

PagesNext == RunGenerateSummary \/ CallGenerateHtmlPage

SpecPages == PagesInit /\ [][PagesNext]_vars

----------------------------------------------------------------------------
(* The renderers, each called on a report held in memory: input.data is    *)
(* the dict that the caller passes, and that it holds after the call.      *)

RenderInit ==
    /\ pc = "render_start"
    /\ \E names \in NameLists(PageNames, MaxPageFeeds) :
          \E counts \in [DOMAIN names -> HtmlCounts] :
             \E failed \in PageFailedFeeds :
                \E collected_at \in RssCollectedAt :
                   input = [data |-> PageReport(collected_at, names, counts,
                                                failed)]
    /\ now \in RssClocks
    /\ output = None
    /\ args = None /\ max_hours = 0 /\ since_time = 0
    /\ config = None /\ idx = 0 /\ results = None /\ total_articles = 0
    /\ calls = << >> /\ artifact = None /\ exit_code = None

\* generate_markdown_summary(data): reads the report
CallGenerateMarkdownSummary ==
    /\ pc = "render_start"
    /\ output' = Some(GenerateMarkdownSummary(input.data))
    /\ pc' = "render_markdown"
    /\ UNCHANGED <<input, mainVars>>

\* generate_html_content(data, current_feed): reads the report
CallGenerateHtmlContent ==
    /\ pc = "render_start"
    /\ \E current_feed \in {None, Some(SummaryPage)}
                           \cup {Some(input.data.feeds[i].name) :
                                    i \in DOMAIN input.data.feeds} :
          output' = Some(GenerateHtmlContent(input.data, current_feed))
    /\ pc' = "render_html"
    /\ UNCHANGED <<input, mainVars>>

\* generate_master_feed(data): builds all_articles of copies and sorts it
CallGenerateMasterFeed ==
    /\ pc = "render_start"
    /\ output' = Some(GenerateMasterFeed(input.data, now))
    /\ input' = [data |-> ReportAfterMasterFeed(input.data)]
    /\ pc' = "render_master"
    /\ UNCHANGED mainVars

\* generate_individual_feed(feed_name, feed_data, collected_at): sorted()
\* returns a new list
CallGenerateIndividualFeed ==
    /\ pc = "render_start"
    /\ \E i \in DOMAIN input.data.feeds :
          /\ calls' = <<i>>
          /\ output' = Some(GenerateIndividualFeed(
                               input.data.feeds[i].name, input.data.feeds[i],
                               input.data.metadata.collected_at, now))
    /\ pc' = "render_individual"
    /\ UNCHANGED <<input, args, now, max_hours, since_time, config, idx,
                   results, total_articles, artifact, exit_code>>

RenderNext ==
    \/ CallGenerateMarkdownSummary
    \/ CallGenerateHtmlContent
    \/ CallGenerateMasterFeed
    \/ CallGenerateIndividualFeed

SpecRender == RenderInit /\ [][RenderNext]_vars

----------------------------------------------------------------------------
(* Claims about parse_rss_feed, checked under SpecParse *)

\* The call has returned a tuple (it did not raise)
ParseReturned == pc = "parse_done" /\ Value(output).kind = "return"

\* The call has returned an article list
ParseSucceeded == ParseReturned /\ ~IsNone(Value(output).articles)

\* The call has returned a failure reason
ParseFailed == ParseReturned /\ ~IsNone(Value(output).error)

\* The article list of a successful call
ParsedArticles == Value(Value(output).articles)

\* C1: on a successful parse, an entry that has a timestamp p is in the
\* returned list if and only if p is strictly after the cutoff; an entry
\* with neither timestamp is in the list with published = Unknown; and the
\* list holds nothing else.
C1_FilterStrictlyAfterCutoff ==
    ParseSucceeded =>
        LET entries == input.response.entries
            t == input.since_time
            InList(a) == \E i \in DOMAIN ParsedArticles : ParsedArticles[i] = a
            Article(e, published) ==
                [title |-> Get(e.title, "No title"), link |-> Get(e.link, ""),
                 published |-> published]
            Dated(e) == ~IsNone(PubDate(e))
            P(e) == Value(PubDate(e))
        IN /\ \A i \in DOMAIN entries :
                LET e == entries[i]
                IN IF Dated(e)
                   THEN InList(Article(e, IsoFormat(P(e)))) <=> P(e) > t
                   ELSE InList(Article(e, Unknown))
           /\ \A j \in DOMAIN ParsedArticles :
                \E i \in DOMAIN entries :
                    LET e == entries[i]
                    IN IF Dated(e)
                       THEN /\ ParsedArticles[j] = Article(e, IsoFormat(P(e)))
                            /\ P(e) > t
                       ELSE ParsedArticles[j] = Article(e, Unknown)

\* C1 witness: a successful parse of a feed holding an entry dated exactly
\* at the cutoff and an undated entry; only the undated one is returned.
C1_Witness ==
    /\ ParseSucceeded
    /\ \E i, j \in DOMAIN input.response.entries :
          /\ PubDate(input.response.entries[i]) = Some(input.since_time)
          /\ IsNone(PubDate(input.response.entries[j]))
    /\ Len(ParsedArticles) = 1
    /\ ParsedArticles[1].published = Unknown

C5_MalformedFailsOnlyWithoutEntries ==
    (/\ pc = "parse_done"
     /\ UrlHasScheme(input.url)
     /\ input.response.kind = "content") =>
        LET feed == input.response
        IN /\ ParseFailed <=> (feed.bozo /\ feed.entries = << >>)
           /\ ParseFailed => Value(Value(output).error)[1] = "Feed parsing error: "
           /\ ParseSucceeded =>
                ParsedArticles = ProcessEntries(feed.entries, input.since_time)
           /\ (~feed.bozo /\ feed.entries = << >>) =>
                (ParseSucceeded /\ ParsedArticles = << >>)

\* C5 witness: a feed flagged as malformed that still yields entries was
\* parsed, and the call returned an article.
C5_Witness ==
    /\ ParseSucceeded
    /\ input.response.kind = "content"
    /\ input.response.bozo
    /\ input.response.entries # << >>
    /\ ParsedArticles # << >>

\* C6: every failure is reported in the class of the error raised: an HTTP
\* error with its status code, a URL error or a timeout as a connection or
\* timeout error, a feed-format error as a feed parsing error, and every
\* other error as an "Unknown error".
C6_FailureClassifiedByKind ==
    ParseFailed =>
        LET exc == TryBody(input.url, input.since_time, input.response).exc
            error == Value(Value(output).error)
            feedFormat == /\ UrlHasScheme(input.url)
                          /\ input.response.kind = "content"
        IN CASE feedFormat -> error # << >> /\ error[1] = "Feed parsing error: "
             [] ~feedFormat /\ exc.cls = "HTTPError" ->
                    error = <<"HTTP ", exc.code, ": ">> \o exc.msg
             [] ~feedFormat /\ exc.cls \in {"URLError", "TimeoutError"} ->
                    error[1] \in {"Connection error: ", "Connection timeout"}
             [] OTHER ->
                    error # << >> /\ error[1] \in {"Unknown error: ", "Unknown error"}

----------------------------------------------------------------------------
(* Claims about generate_feed_slug, checked under SpecSlug *)

\* The characters that str.isupper() holds of
IsUpper(c) == c \in {"A", "U+1D400", "U+0130"}

\* C3: the slug of every feed name holds only lowercase alphanumeric
\* characters and hyphens, neither starts nor ends with a hyphen, and holds
\* no two consecutive hyphens.
C3_SlugIsLowercaseAlnumAndHyphens ==
    pc = "slug_done" =>
        LET slug == Value(output)
        IN /\ \A i \in DOMAIN slug :
                slug[i] = "-" \/ (IsAlnum(slug[i]) /\ ~IsUpper(slug[i]))
           /\ slug # << >> => (slug[1] # "-" /\ slug[Len(slug)] # "-")
           /\ ~HasDoubleHyphen(slug)

----------------------------------------------------------------------------
(* Claims about collect_feeds.main, checked under Spec and FairSpec *)

\* The configured feeds of the run
Feeds == ConfigFeeds(Value(config))

\* The configured feed at position i has a URL
HasUrl(i) == Feeds[i].url # None /\ Feeds[i].url # Some("")

\* The fetch of the feed at position i has returned, with or without articles
FetchOk(i) ==
    \E k \in DOMAIN calls :
        calls[k].pos = i /\ ~IsNone(calls[k].result.articles)

FetchFailed(i) ==
    \E k \in DOMAIN calls :
        calls[k].pos = i /\ calls[k].result.kind = "return"
                         /\ IsNone(calls[k].result.articles)

C7_EachFeedInExactlyOneList ==
    pc = "done" =>
        LET InFeeds(i) ==
                \E k \in DOMAIN results.feeds :
                    /\ results.feeds[k].name = FeedName(Feeds[i])
                    /\ results.feeds[k].url = FeedUrl(Feeds[i])
            InFailed(i) ==
                \E k \in DOMAIN results.failed_feeds :
                    /\ results.failed_feeds[k].name = FeedName(Feeds[i])
                    /\ results.failed_feeds[k].url = FeedUrl(Feeds[i])
        IN \A i \in DOMAIN Feeds :
              HasUrl(i) =>
                  /\ InFeeds(i) # InFailed(i)
                  /\ InFeeds(i) <=> FetchOk(i)
                  /\ InFailed(i) <=> FetchFailed(i)

\* C8: once the fetch of a feed has failed, the run goes on to process
\* every feed that follows it, and writes the artifact, which lists the
\* failed feed with its reason.
C8_FailureDoesNotAbortRun ==
    \A i \in 1..MaxFeeds :
        (IF pc = "loop" THEN i < idx /\ FetchFailed(i) ELSE FALSE)
        ~> (IF pc = "done" /\ ~IsNone(artifact)
            THEN /\ \A j \in DOMAIN Feeds :
                       (j > i /\ HasUrl(j)) => (FetchOk(j) \/ FetchFailed(j))
                 /\ \E k \in DOMAIN calls :
                       /\ calls[k].pos = i
                       /\ ~IsNone(calls[k].result.error)
                       /\ \E n \in DOMAIN Value(artifact).failed_feeds :
                             Value(artifact).failed_feeds[n] =
                                [name |-> FeedName(Feeds[i]),
                                 url |-> FeedUrl(Feeds[i]),
                                 error |-> Value(calls[k].result.error)]
            ELSE FALSE)

\* C8 witness: the artifact of a run whose first feed failed and whose
\* second feed was fetched with success.
C8_Witness ==
    /\ pc = "done"
    /\ Len(Feeds) >= 2
    /\ FetchFailed(1)
    /\ FetchOk(2)
    /\ Len(Value(artifact).failed_feeds) = 1

\* C9: the iteration of the loop on a feed whose URL is missing or empty
\* makes no fetch and leaves feeds and failed_feeds as they are.
C9_FeedWithoutUrlIsSkipped ==
    [][(InLoop /\ ~HasUrl(idx)) =>
          /\ calls' = calls
          /\ results'.feeds = results.feeds
          /\ results'.failed_feeds = results.failed_feeds
          /\ idx' = idx + 1]_vars

\* C9 witness: the loop has fetched the first feed and passed over the
\* second, which has no URL.
C9_Witness ==
    /\ pc = "loop"
    /\ idx = 3
    /\ HasUrl(1)
    /\ ~HasUrl(2)
    /\ Len(calls) = 1
    /\ Len(results.feeds) + Len(results.failed_feeds) = 1

\* C10: the feeds are fetched one at a time in the order of the
\* configuration, and failed_feeds lists the failed feeds in that order.
C10_FailedFeedsInConfigOrder ==
    pc \in {"loop", "done"} =>
        LET fetched == {i \in DOMAIN Feeds : i < idx /\ HasUrl(i)}
            failed == {i \in fetched : FetchFailed(i)}
            Rank(S, i) == Cardinality({j \in S : j <= i})
        IN /\ Len(calls) = Cardinality(fetched)
           /\ \A i \in fetched :
                 /\ calls[Rank(fetched, i)].pos = i
                 /\ calls[Rank(fetched, i)].url = FeedUrl(Feeds[i])
           /\ Len(results.failed_feeds) = Cardinality(failed)
           /\ \A i \in failed :
                 /\ results.failed_feeds[Rank(failed, i)].name = FeedName(Feeds[i])
                 /\ results.failed_feeds[Rank(failed, i)].url = FeedUrl(Feeds[i])

\* C10 witness: the artifact of a run in which two feeds of different
\* names failed.
C10_Witness ==
    /\ pc = "done"
    /\ Len(results.failed_feeds) = 2
    /\ results.failed_feeds[1].name # results.failed_feeds[2].name

\* C11: in the record that main builds, and in the artifact it writes, the
\* count of every entry of feeds is the length of its article list.
C11_CountIsLengthOfArticles ==
    /\ pc \in {"loop", "done"} =>
          \A k \in DOMAIN results.feeds :
              results.feeds[k].count = Len(results.feeds[k].articles)
    /\ ~IsNone(artifact) =>
          \A k \in DOMAIN Value(artifact).feeds :
              Value(artifact).feeds[k].count
                = Len(Value(artifact).feeds[k].articles)

\* C11 witness: the artifact of a run holds a feed with two articles and a
\* feed with none.
C11_Witness ==
    /\ pc = "done"
    /\ \E k \in DOMAIN Value(artifact).feeds :
          /\ Len(Value(artifact).feeds[k].articles) = 2
          /\ Value(artifact).feeds[k].count = 2
    /\ \E k \in DOMAIN Value(artifact).feeds :
          Value(artifact).feeds[k].articles = << >>

RECURSIVE SumOfCounts(_)
\* The sum of count over the entries of feeds
SumOfCounts(feeds) ==
    IF feeds = << >> THEN 0 ELSE Head(feeds).count + SumOfCounts(Tail(feeds))

\* C12: in the written artifact, summary.successful_feeds is the number of
\* entries of feeds, summary.failed_feeds is the length of failed_feeds, and
\* summary.total_articles is the sum of count over the entries of feeds.
C12_SummaryIsAggregationOfRecord ==
    ~IsNone(artifact) =>
        LET a == Value(artifact)
            summary == Value(a.summary)
        IN /\ summary.successful_feeds = Len(a.feeds)
           /\ summary.failed_feeds = Len(a.failed_feeds)
           /\ summary.total_articles = SumOfCounts(a.feeds)

----------------------------------------------------------------------------
(* Claims about the RSS renderer, checked under SpecRss *)

\* The report that the run reads
RssData == Value(input.file.data)

\* generate_rss.py has run at least once on a report
RssRan == pc \in {"rss_once", "rss_twice"} /\ input.file.kind = "json"

\* The files of the given path that a run wrote
FilesAt(run, path) ==
    {run.files[f].content : f \in {g \in DOMAIN run.files : run.files[g].path = path}}

\* The article of the report that has the given title
ArticleOf(title) ==
    CHOOSE a \in UNION {{RssData.feeds[i].articles[k] :
                            k \in DOMAIN RssData.feeds[i].articles} :
                         i \in DOMAIN RssData.feeds} : a.title = title

\* The article has a publication date that parses
Dated(a) == a.published.kind = "iso"

\* The two articles have the same sort timestamp: the same date, or none
SameStamp(a, b) ==
    \/ Dated(a) /\ Dated(b) /\ a.published.ts = b.published.ts
    \/ ~Dated(a) /\ ~Dated(b)

\* Articles of equal sort timestamp are in sorted in the order in which
\* they are in articles
KeepsOrderOnTies(articles, sorted) ==
    \A i, j \in DOMAIN articles :
        (i < j /\ SameStamp(articles[i], articles[j])) =>
            \E k, l \in DOMAIN sorted :
                /\ k < l
                /\ sorted[k].title = articles[i].title
                /\ sorted[l].title = articles[j].title

C15_SortIsStable ==
    /\ RssRan =>
          \A r \in DOMAIN output :
            /\ \A master \in FilesAt(output[r], <<"feed.xml">>) :
                  KeepsOrderOnTies(AllArticles(RssData.feeds), master.items)
            /\ \A i \in DOMAIN RssData.feeds :
                  \A feed \in FilesAt(output[r],
                                      <<"feed-">>
                                        \o GenerateFeedSlug(RssData.feeds[i].name)
                                        \o <<".xml">>) :
                      KeepsOrderOnTies(RssData.feeds[i].articles, feed.items)
    /\ (pc = "rss_sorted" /\ output[1].kind = "return") =>
          KeepsOrderOnTies(RssData.feeds[1].articles, output[1].value)

\* C15 witness: sort_articles_by_date has returned a list of two articles
\* of the same date in the order of the input.
C15_Witness ==
    /\ pc = "rss_sorted"
    /\ output[1].kind = "return"
    /\ Len(RssData.feeds[1].articles) = 2
    /\ Dated(RssData.feeds[1].articles[1])
    /\ SameStamp(RssData.feeds[1].articles[1], RssData.feeds[1].articles[2])
    /\ output[1].value = RssData.feeds[1].articles

\* C16: whatever the published values of the articles of a report and
\* whatever its collected_at, the RSS renderer completes: it writes the
\* master feed and the feed of every feed of the report, and an item or a
\* build date whose date does not parse carries the time of the run.
C16_MalformedDateIsNeverFatal ==
    RssRan =>
        \A r \in DOMAIN output :
            /\ Len(output[r].files) = 1 + Len(RssData.feeds)
            /\ \A master \in FilesAt(output[r], <<"feed.xml">>) :
                  /\ RssData.metadata.collected_at = Garbage =>
                        master.lastBuildDate = Rfc822(output[r].clock)
                  /\ \A k \in DOMAIN master.items :
                        ArticleOf(master.items[k].title).published = Garbage =>
                            master.items[k].pubDate = Some(Rfc822(output[r].clock))

\* C17: two runs of the RSS renderer on the same report write the same
\* files, whenever they run.
C17_RenderingIsIdempotent ==
    (pc = "rss_twice" /\ input.file.kind = "json") =>
        output[1].files = output[2].files

\* C13: generate_rss.py exits with status 1 if its input file is missing
\* or is not valid JSON, and with status 0 in every other case.
C13_ExitCodeTellsMissingOrInvalidInput ==
    pc \in {"rss_once", "rss_twice"} =>
        exit_code = Some(IF input.file.kind \in {"missing", "invalid"}
                         THEN 1 ELSE 0)

----------------------------------------------------------------------------
(* Claims about the Markdown summary, checked under SpecMarkdown *)

\* A Markdown summary has been written
MdWritten == pc = "md_done" /\ ~IsNone(Value(output).markdown)

MdData == Value(input.file.data)

MdLines == Value(Value(output).markdown)

\* The line that opens the section of the feed
MdHeadOf(feed) ==
    CHOOSE k \in DOMAIN MdLines : MdLines[k] = [kind |-> "feed", name |-> feed.name]

\* The blank line that closes the section opened at line k
MdEndOf(k) ==
    CHOOSE e \in DOMAIN MdLines :
        /\ e > k
        /\ MdLines[e].kind = "blank"
        /\ \A m \in (k + 1)..(e - 1) : MdLines[m].kind # "blank"

\* The lines of the given kind in the section of the feed
MdLinesOf(feed, kind) ==
    {m \in (MdHeadOf(feed) + 1)..(MdEndOf(MdHeadOf(feed)) - 1) :
        MdLines[m].kind = kind}

\* C18: in the Markdown summary, the table of every feed has at most 10
\* article rows; a feed of count > 10 has exactly one line "...and
\* {count - 10} more articles", after the last row of its table; a feed of
\* count <= 10 has no such line.
C18_TableHasAtMostTenRows ==
    MdWritten =>
        \A i \in DOMAIN MdData.feeds :
            LET feed == MdData.feeds[i]
                rows == MdLinesOf(feed, "row")
                more == MdLinesOf(feed, "more")
            IN /\ Cardinality(rows) <= 10
               /\ feed.count > 10 =>
                    /\ Cardinality(more) = 1
                    /\ \A m \in more :
                          /\ MdLines[m].n = feed.count - 10
                          /\ \A r \in rows : r < m
               /\ feed.count <= 10 => more = {}

\* C18 witness: the summary of a report with a feed of 12 articles, shown
\* as 10 rows and "2 more", and a feed of 10 articles, shown as 10 rows.
C18_Witness ==
    /\ MdWritten
    /\ \E i \in DOMAIN MdData.feeds :
          /\ MdData.feeds[i].count = 12
          /\ Cardinality(MdLinesOf(MdData.feeds[i], "row")) = 10
          /\ \E m \in MdLinesOf(MdData.feeds[i], "more") : MdLines[m].n = 2
    /\ \E i \in DOMAIN MdData.feeds :
          /\ MdData.feeds[i].count = 10
          /\ Cardinality(MdLinesOf(MdData.feeds[i], "row")) = 10

\* C19: in the Markdown summary, a title of more than 80 characters is
\* shown as its first 80 characters and "...", and a title of 80 characters
\* or fewer is shown as it is.
C19_LongTitleIsCutAtEightyChars ==
    MdWritten =>
        \A i \in DOMAIN MdData.feeds :
            LET feed == MdData.feeds[i]
                first == MdHeadOf(feed) + 3
            IN \A m \in MdLinesOf(feed, "row") :
                  LET title == feed.articles[m - first].title
                  IN MdLines[m].title =
                        IF Len(title) > 80
                        THEN [c \in 1..83 |-> IF c <= 80 THEN title[c] ELSE "."]
                        ELSE title

\* C19 witness: the summary shows a title of 81 characters cut to 80
\* characters and "...", and a title of 80 characters whole.
C19_Witness ==
    /\ MdWritten
    /\ \E i \in DOMAIN MdData.feeds :
          /\ MdData.feeds[i].articles # << >>
          /\ Len(MdData.feeds[i].articles[1].title) = 81
          /\ \E m \in MdLinesOf(MdData.feeds[i], "row") :
                Len(MdLines[m].title) = 83 /\ MdLines[m].title[83] = "."
    /\ \E i \in DOMAIN MdData.feeds :
          /\ MdData.feeds[i].articles # << >>
          /\ Len(MdData.feeds[i].articles[1].title) = 80
          /\ \E m \in MdLinesOf(MdData.feeds[i], "row") :
                MdLines[m].title = MdData.feeds[i].articles[1].title

----------------------------------------------------------------------------
(* Claims about the HTML index page, checked under SpecHtml *)

\* The feed sections of the index page, in the order of the page
HtmlSections == Value(output)

\* The feed of the report that the k-th section of the page shows
HtmlFeedShown(k) ==
    CHOOSE f \in {input.data.feeds[i] : i \in DOMAIN input.data.feeds} :
        HtmlEscape(f.name) = HtmlSections[k].name

----------------------------------------------------------------------------
(* Further claims about parse_rss_feed, checked under SpecParse *)

\* The timestamp is present: the attribute exists and holds a value
Present(a) == a # Absent /\ a[1] # None

\* C25: for every entry, the published timestamp is used when it is
\* present and the updated timestamp otherwise: an entry with a published
\* timestamp is returned if and only if that timestamp is after the cutoff,
\* and carries it; an entry with only an updated timestamp is returned if and
\* only if that one is after the cutoff, and carries it; an entry is
\* returned as "Unknown" if and only if it has neither.
C25_PublishedBeforeUpdated ==
    (ParseSucceeded /\ Len(input.response.entries) = 1) =>
        LET e == input.response.entries[1]
            t == input.since_time
            Returned(ts) ==
                /\ Len(ParsedArticles) = 1
                /\ ParsedArticles[1].published = IsoFormat(ts)
        IN IF Present(e.published_parsed)
           THEN IF e.published_parsed[1][1] > t
                THEN Returned(e.published_parsed[1][1])
                ELSE ParsedArticles = << >>
           ELSE IF Present(e.updated_parsed)
           THEN IF e.updated_parsed[1][1] > t
                THEN Returned(e.updated_parsed[1][1])
                ELSE ParsedArticles = << >>
           ELSE /\ Len(ParsedArticles) = 1
                /\ ParsedArticles[1].published = Unknown

\* C25 witness: an entry published before the cutoff and updated after it
\* was parsed, and was not returned.
C25_Witness ==
    /\ ParseSucceeded
    /\ Len(input.response.entries) = 1
    /\ input.response.entries[1].published_parsed = Attr(Some(input.since_time - 1))
    /\ input.response.entries[1].updated_parsed = Attr(Some(input.since_time + 1))
    /\ ParsedArticles = << >>

----------------------------------------------------------------------------
(* Further claims about collect_feeds.main, checked under Spec *)

\* C26: a step of the run never fetches a feed entry that has been fetched
\* before, with success or not: every feed entry is fetched at most once.
C26_AtMostOneFetchPerFeed ==
    [][\A k \in DOMAIN calls :
          \A l \in DOMAIN calls' :
              l > Len(calls) => calls'[l].pos # calls[k].pos]_vars

\* C26 witness: the fetch of the first feed has failed and the loop has
\* gone on to fetch the second, one call each.
C26_Witness ==
    /\ pc = "loop"
    /\ idx = 3
    /\ FetchFailed(1)
    /\ Len(calls) = 2
    /\ calls[1].pos = 1
    /\ calls[2].pos = 2

\* C29: in the artifact of a run whose configured feeds have pairwise
\* different names, total_feeds is the sum of successful_feeds, of
\* failed_feeds and of the number of feeds skipped for lack of a URL.
C29_TotalIsSuccessfulPlusFailedPlusSkipped ==
    (/\ ~IsNone(artifact)
     /\ \A i, j \in DOMAIN Feeds :
           i # j => FeedName(Feeds[i]) # FeedName(Feeds[j])) =>
        LET summary == Value(Value(artifact).summary)
            skipped == Cardinality({i \in DOMAIN Feeds : ~HasUrl(i)})
        IN summary.total_feeds
             = summary.successful_feeds + summary.failed_feeds + skipped

\* C29 witness: the artifact of a run of two feeds of different names, one
\* fetched and one skipped for lack of a URL.
C29_Witness ==
    /\ pc = "done"
    /\ Len(Feeds) = 2
    /\ FeedName(Feeds[1]) # FeedName(Feeds[2])
    /\ HasUrl(1)
    /\ ~HasUrl(2)
    /\ Value(Value(artifact).summary).total_feeds = 2

----------------------------------------------------------------------------
(* Further claims about generate_feed_slug, checked under SpecSlug *)

\* C28: the slug of a slug is the slug itself.
C28_SlugIsIdempotent ==
    pc = "slug_again" => Value(output) = calls[1]

\* C28 witness: the slug of a name with three separators in a row between
\* two letters was taken, and the slug of that slug.
C28_Witness ==
    /\ pc = "slug_again"
    /\ input = <<"A", " ", "/", "-", "a">>
    /\ calls[1] = <<"a", "-", "a">>
    /\ Value(output) = <<"a", "-", "a">>

----------------------------------------------------------------------------
(* Claims about the pages of generate_summary.py, checked under SpecPages *)

\* The report that the run has read
PagesData == Value(input.file.data)

\* The run of generate_summary.py has ended on a report that was read
PagesRan == pc = "pages_done" /\ input.file.kind = "json"

\* The files that the run has written
PagesFiles == Value(output).files

\* The characters that html.escape replaces
Special == {"&", "<", ">", "\"", "'"}

\* The text holds none of the characters that html.escape replaces
IsEscaped(text) == \A k \in DOMAIN text : text[k] \notin Special

IsEscapedDate(date) == "text" \in DOMAIN date => IsEscaped(date.text)

\* Every text of one part of the content of a page is escaped
IsEscapedPart(part) ==
    /\ "heading" \in DOMAIN part => IsEscaped(part.heading)
    /\ "articles" \in DOMAIN part =>
          /\ IsEscaped(part.name)
          /\ \A i \in DOMAIN part.articles :
                /\ IsEscaped(part.articles[i].title)
                /\ IsEscaped(part.articles[i].link)
                /\ IsEscapedDate(part.articles[i].published)
                /\ IsEscapedDate(part.articles[i].meta)
    /\ "failed_name" \in DOMAIN part =>
          /\ IsEscaped(part.failed_name)
          /\ IsEscaped(part.failed_url)
          /\ IsEscaped(part.failed_error)
    /\ "breakdown_name" \in DOMAIN part => IsEscaped(part.breakdown_name)

\* C21: on every page that a run writes, every text that comes from the
\* report is HTML-escaped: the page title, the labels of the navigation,
\* the feed names in the headings, the titles, links and dates of the
\* articles, and the names, URLs and errors of the failed feeds hold no
\* raw &, <, >, " or '; and the index page shows every feed and every
\* article of the report under its escaped name and title.
C21_ReportTextIsEscaped ==
    PagesRan =>
        /\ \A f \in DOMAIN PagesFiles :
              LET page == PagesFiles[f].content
              IN /\ IsEscaped(page.title)
                 /\ \A k \in DOMAIN page.sidebar : IsEscaped(page.sidebar[k].label)
                 /\ \A k \in DOMAIN page.content : IsEscapedPart(page.content[k])
        /\ PagesFiles # << >> =>
              \A i \in DOMAIN PagesData.feeds :
                  \E k \in DOMAIN PagesFiles[1].content.content :
                      LET part == PagesFiles[1].content.content[k]
                          feed == PagesData.feeds[i]
                      IN /\ part.name = HtmlEscape(feed.name)
                         /\ Len(part.articles) = Len(feed.articles)
                         /\ \A j \in DOMAIN feed.articles :
                               /\ part.articles[j].title
                                    = HtmlEscape(feed.articles[j].title)
                               /\ part.articles[j].link
                                    = HtmlEscape(feed.articles[j].link)

\* C21 witness: the pages of a report with a failed feed and with the feed
\* "A<" of two articles were written; the index shows the feed as "A&lt;"
\* and the summary page shows the failed feed as "C&lt;".
C21_Witness ==
    /\ PagesRan
    /\ Len(PagesFiles) = 3
    /\ PagesData.failed_feeds # << >>
    /\ Len(PagesData.feeds) = 1
    /\ PagesData.feeds[1].name = <<"A", "<">>
    /\ PagesData.feeds[1].count = 2
    /\ PagesFiles[1].content.content[1].name = <<"A", "&lt;">>
    /\ PagesFiles[1].content.content[1].articles[2].title
         = <<"A", "&lt;", "&lt;", "&lt;">>
    /\ PagesFiles[2].content.content[3].failed_name = <<"C", "&lt;">>
    /\ PagesFiles[3].content.title = <<"A", "&lt;", " - DevOps Feed Hub">>

\* C22: on every page that generate_all_pages writes, the navigation holds
\* the All Feeds link, one link per feed and the Summary link, and exactly
\* one link is active: the link of the page itself.
C22_OnlyTheLinkOfThePageIsActive ==
    PagesRan =>
        \A f \in DOMAIN PagesFiles :
            LET nav == PagesFiles[f].content.sidebar
            IN /\ Len(nav) = Len(PagesData.feeds) + 2
               /\ nav[1].href = <<"index.html">>
               /\ nav[Len(nav)].href = <<"summary.html">>
               /\ Cardinality({k \in DOMAIN nav : nav[k].active}) = 1
               /\ \A k \in DOMAIN nav :
                     nav[k].active => nav[k].href = PagesFiles[f].path

\* The file of that path, among the files that the run has written
PagesAt(path) == {f \in DOMAIN PagesFiles : PagesFiles[f].path = path}

\* The parts of the content of a page that show the articles of a feed
FeedParts(page) ==
    SelectSeq(page.content, LAMBDA part : "articles" \in DOMAIN part)

\* C23: a run that writes the pages of a report writes index.html,
\* summary.html and one feed page per feed: the number of feed pages is the
\* number of feeds, and the page of every feed shows that feed.
C23_OnePagePerFeed ==
    (PagesRan /\ Value(output).exit_code = 0) =>
        /\ PagesAt(<<"index.html">>) # {}
        /\ PagesAt(<<"summary.html">>) # {}
        /\ Len(PagesFiles) = Len(PagesData.feeds) + 2
        /\ \A i \in DOMAIN PagesData.feeds :
              \E f \in PagesAt(<<"feed-">>
                                \o GenerateFeedSlug(PagesData.feeds[i].name)
                                \o <<".html">>) :
                  PagesFiles[f].content.title
                    = HtmlEscape(PagesData.feeds[i].name
                                   \o <<" - DevOps Feed Hub">>)

\* C24: with a template that is missing or cannot be read, generate_html_page
\* raises FileNotFoundError or OSError, and a run writes no HTML page and
\* ends with status 1, while the Markdown summary, if the run was asked for
\* it, is written as it is with a template.
C24_MissingTemplateIsFatalToHtmlOnly ==
    (input.file.kind = "json" /\ input.template \in {"missing", "unreadable"}) =>
        LET cls == IF input.template = "missing"
                   THEN "FileNotFoundError" ELSE "OSError"
        IN /\ pc = "page_done" =>
                 /\ Value(output).kind = "raise"
                 /\ Value(output).cls = cls
           /\ pc = "pages_done" =>
                 /\ Value(output).exit_code = 1
                 /\ Value(output).cls = cls
                 /\ PagesFiles = << >>
                 /\ input.markdown <=> ~IsNone(Value(output).markdown)
                 /\ input.markdown =>
                       Value(Value(output).markdown)
                         = GenerateMarkdownSummary(PagesData)

\* C24 witness: a run that was asked for Markdown and for HTML, without a
\* template, has ended: the Markdown summary of the two feeds is written,
\* and no page.
C24_Witness ==
    /\ PagesRan
    /\ input.template = "missing"
    /\ input.markdown
    /\ Len(PagesData.feeds) = 2
    /\ PagesFiles = << >>
    /\ ~IsNone(Value(output).markdown)
    /\ Value(output).exit_code = 1

\* C27: the page that generate_html_page returns for a feed of the report
\* shows that feed and no other: one feed section, under the name of the
\* feed, with as many articles as the count of the feed, each under the
\* title of the article of the feed.
C27_FeedPageShowsTheArticlesOfTheFeed ==
    (pc = "page_done" /\ Value(output).kind = "return") =>
        LET feed == PagesData.feeds[calls[1]]
            parts == FeedParts(Value(output).value)
        IN /\ Len(parts) = 1
           /\ parts[1].name = HtmlEscape(feed.name)
           /\ Len(parts[1].articles) = feed.count
           /\ \A j \in DOMAIN feed.articles :
                 parts[1].articles[j].title = HtmlEscape(feed.articles[j].title)

----------------------------------------------------------------------------
(* Claims about the renderers, checked under SpecRender *)

\* C30: no call of generate_markdown_summary, generate_html_content,
\* generate_master_feed or generate_individual_feed changes the report that
\* it is given: after the call the report holds the feeds, the articles in
\* their order and without a source field, the failed feeds, the summary
\* and the metadata that it held before.
C30_RenderersLeaveTheReportAlone ==
    [][input'.data = input.data]_vars

\* C30 witness: generate_master_feed has returned the feed of a report of
\* two feeds with an article each, its items carry the source, and the
\* articles of the report carry none.
C30_Witness ==
    /\ pc = "render_master"
    /\ Value(output).kind = "return"
    /\ Len(input.data.feeds) = 2
    /\ \A k \in DOMAIN input.data.feeds :
          /\ input.data.feeds[k].count = 1
          /\ "source" \notin DOMAIN input.data.feeds[k].articles[1]
    /\ Len(Value(output).value.items) = 2

====
